---- MODULE Spec2Model ----
(***************************************************************************)
(* A model of rpt2ogd77.py: the conversion of a repeater registry into     *)
(* the OpenGD77 CPS files Channels.csv and Zones.csv.                      *)
(*                                                                         *)
(* Text is a sequence of one-character strings, so that slicing, find,     *)
(* replace and strip are computed as Python computes them.  A row of a     *)
(* csv file is a record of the fields the script reads or derives          *)
(* Channel Number, Channel Name, Channel Type, Rx/Tx Frequency, All Skip); *)
(* the fields it only copies (colour code, tones, position, the fixed      *)
(* flags) are left out.                                                    *)
(***************************************************************************)
EXTENDS Integers, Sequences, FiniteSets, TLC

VARIABLES
    pc,        \* position of the script
    args,      \* parsed command line: [home, allskip]
    custom,    \* rows of the --custom file
    records,   \* rows of the repeater database file
    cidx,      \* number of custom rows read
    ridx,      \* number of database rows read
    name,      \* name of the channel being made unique
    channel,   \* the channel being made unique
    channels,  \* the dict channels, in insertion order: <<name, channel>>
    emitted,   \* rows written to Channels.csv, after the header
    opened,    \* Channels.csv has been opened for writing
    out,       \* lines printed
    zidx,      \* number of rows of Channels.csv read by the zone pass
    zones,     \* the dict zones: zone name -> list of channel names
    zonefile   \* rows written to Zones.csv, after the header

vars == <<pc, args, custom, records, cidx, ridx, name, channel, channels,
          emitted, opened, out, zidx, zones, zonefile>>

---------------------------------------------------------------------------
(* Program constants *)

DN_OFF == 2
NameWidth == 16
IdBase == 500
CustomLimit == 499
ZoneCap == 80
ZoneRowWidth == 81
BandFrom == 10
RoomForTag == 15

valid_districts == 0..7

Digits == {"0", "1", "2", "3", "4", "5", "6", "7", "8", "9"}

DigitVal == [c \in Digits |->
    CASE c = "0" -> 0 [] c = "1" -> 1 [] c = "2" -> 2 [] c = "3" -> 3
      [] c = "4" -> 4 [] c = "5" -> 5 [] c = "6" -> 6 [] c = "7" -> 7
      [] c = "8" -> 8 [] c = "9" -> 9]

DigitChar == [d \in 0..9 |-> CHOOSE c \in Digits : DigitVal[c] = d]

\* The characters of the model's texts in code point order (str comparison).
CodeOrder == <<" ", "+", "-", ".", "/", "0", "1", "2", "3", "4", "5", "6", "7",
               "8", "9", "A", "B", "C", "D", "E", "F", "G", "H", "I", "J", "K",
               "L", "M", "N", "O", "P", "Q", "R", "S", "T", "U", "V", "W", "X",
               "Y", "Z", "_", "a", "b", "c", "d", "e", "f", "g", "h", "i", "j",
               "k", "l", "m", "n", "o", "p", "q", "r", "s", "t", "u", "v", "w",
               "x", "y", "z", "0/">>

Ord(c) == CHOOSE i \in 1..Len(CodeOrder) : CodeOrder[i] = c

---------------------------------------------------------------------------
(* Python's str operations *)

Min(a, b) == IF a < b THEN a ELSE b
Max(a, b) == IF a < b THEN b ELSE a

\* s[:n], n >= 0
Take(s, n) == SubSeq(s, 1, Min(n, Len(s)))

\* s[n:], n >= 0
From(s, n) == SubSeq(s, n + 1, Len(s))

\* s[:-n], n > 0
DropLast(s, n) == SubSeq(s, 1, Max(Len(s) - n, 0))

StartsWith(s, sub) == Len(sub) <= Len(s) /\ SubSeq(s, 1, Len(sub)) = sub

\* s.find(sub): the least 0-based index where sub occurs, or -1
Find(s, sub) ==
    LET hits == {i \in 0..(Len(s) - Len(sub)) : SubSeq(s, i + 1, i + Len(sub)) = sub}
    IN  IF hits = {} THEN -1 ELSE CHOOSE i \in hits : \A j \in hits : i <= j

\* s.rfind(sub): the greatest 0-based index where sub occurs, or -1
RFind(s, sub) ==
    LET hits == {i \in 0..(Len(s) - Len(sub)) : SubSeq(s, i + 1, i + Len(sub)) = sub}
    IN  IF hits = {} THEN -1 ELSE CHOOSE i \in hits : \A j \in hits : j <= i

\* sub in s
In(sub, s) == Find(s, sub) # -1

\* s.replace(old, new), old not empty
RECURSIVE Replace(_, _, _)
Replace(s, old, new) ==
    IF s = <<>> THEN <<>>
    ELSE IF StartsWith(s, old) THEN new \o Replace(From(s, Len(old)), old, new)
    ELSE <<Head(s)>> \o Replace(Tail(s), old, new)

\* s.replace(old, new, 1)
ReplaceFirst(s, old, new) ==
    LET i == Find(s, old)
    IN  IF i = -1 THEN s ELSE Take(s, i) \o new \o From(s, i + Len(old))

RECURSIVE LStrip(_)
LStrip(s) == IF s # <<>> /\ Head(s) = " " THEN LStrip(Tail(s)) ELSE s

RECURSIVE RStrip(_)
RStrip(s) == IF s # <<>> /\ s[Len(s)] = " " THEN RStrip(DropLast(s, 1)) ELSE s

\* s.strip()
Strip(s) == LStrip(RStrip(s))

\* s.isnumeric()
IsNumeric(s) == s # <<>> /\ \A i \in 1..Len(s) : s[i] \in Digits

\* int(s) of a text of decimal digits
RECURSIVE IntOf(_)
IntOf(s) == IF s = <<>> THEN 0 ELSE 10 * IntOf(DropLast(s, 1)) + DigitVal[s[Len(s)]]

\* whether int(s) succeeds, for a text of the model's characters without sign
IntOk(s) == IsNumeric(s)

RECURSIVE Pow10(_)
Pow10(n) == IF n = 0 THEN 1 ELSE 10 * Pow10(n - 1)

RECURSIVE Repeat(_, _)
Repeat(x, n) == IF n <= 0 THEN <<>> ELSE <<x>> \o Repeat(x, n - 1)

---------------------------------------------------------------------------
(* decimal.Decimal, for texts made of digits, ".", "-" and "+" (any other   *)
(* character of the model's texts makes the constructor raise)              *)

Unsigned(s) == IF s # <<>> /\ s[1] \in {"-", "+"} THEN Tail(s) ELSE s

\* whether Decimal(s) succeeds
DecimalOk(s) ==
    LET u == Unsigned(s)
    IN  /\ \A i \in 1..Len(u) : u[i] \in Digits \cup {"."}
        /\ Cardinality({i \in 1..Len(u) : u[i] = "."}) <= 1
        /\ \E i \in 1..Len(u) : u[i] \in Digits

\* Decimal(s): sign, coefficient and number of fractional digits
Decimal(s) ==
    LET u == Unsigned(s)
        dot == Find(u, <<".">>)
    IN  [neg   |-> s # <<>> /\ s[1] = "-",
         coef  |-> IntOf(Replace(u, <<".">>, <<>>)),
         scale |-> IF dot = -1 THEN 0 ELSE Len(u) - dot - 1]

\* Decimal(0), what the int 0 becomes in an addition
DecZero == [neg |-> FALSE, coef |-> 0, scale |-> 0]

Signed(d, scale) == (IF d.neg THEN -1 ELSE 1) * d.coef * Pow10(scale - d.scale)

\* a + b: exact, with the finer of the two scales
DecAdd(a, b) ==
    LET sc  == Max(a.scale, b.scale)
        sum == Signed(a, sc) + Signed(b, sc)
    IN  [neg   |-> IF sum # 0 THEN sum < 0
                   ELSE a.coef = 0 /\ b.coef = 0 /\ a.neg /\ b.neg,
         coef  |-> IF sum < 0 THEN -sum ELSE sum,
         scale |-> sc]

\* a < b, numerically
DecLess(a, b) ==
    LET sc == Max(a.scale, b.scale) IN Signed(a, sc) < Signed(b, sc)

RECURSIVE NatStr(_)
NatStr(n) == IF n < 10 THEN <<DigitChar[n]>>
             ELSE NatStr(n \div 10) \o <<DigitChar[n % 10]>>

\* '{0}'.format(d), for the scales of the model (plain notation)
DecStr(d) ==
    LET raw    == NatStr(d.coef)
        digits == Repeat("0", d.scale + 1 - Len(raw)) \o raw
        whole  == Take(digits, Len(digits) - d.scale)
        frac   == From(digits, Len(digits) - d.scale)
    IN  (IF d.neg THEN <<"-">> ELSE <<>>) \o whole
        \o (IF d.scale > 0 THEN <<".">> \o frac ELSE <<>>)

---------------------------------------------------------------------------
(* Texts the script compares with or writes *)

T_Repeater == <<"R", "e", "p", "e", "a", "t", "e", "r">>
T_QRV      == <<"Q", "R", "V">>
T_DMR      == <<"D", "M", "R">>
T_FM       == <<"F", "M">>
T_2        == <<"2">>
T_70       == <<"7", "0">>
T_2m       == <<"2", "m">>
T_70cm     == <<"7", "0", "c", "m">>
T_Upplands == <<"U", "p", "p", "l", "a", "n", "d", "s", " ">>
T_U        == <<"U", ".">>
T_SM       == <<"S", "M">>
T_Analogue == <<"A", "n", "a", "l", "o", "g", "u", "e">>
T_AllChannels == <<"A", "l", "l", " ", "C", "h", "a", "n", "n", "e", "l", "s">>
T_All2mDMR == <<"A", "l", "l", " ", "2", "m", " ", "D", "M", "R">>
T_All70cmDMR == <<"A", "l", "l", " ", "7", "0", "c", "m", " ", "D", "M", "R">>

---------------------------------------------------------------------------
(* The channel pass: filter, derivation, disambiguation *)

\* the two conditions under which a database row is processed
Filter(row) ==
    /\ Len(row.district) = 1
    /\ In(T_Repeater, row.type)
    /\ In(T_QRV, row.status)
    /\ (In(T_DMR, row.mode) \/ In(T_FM, row.mode))
    /\ (row.band = T_2 \/ row.band = T_70)

Callsign(row) ==
    LET c0 == Replace(row.call, <<"0/">>, <<"0">>)
        c1 == IF In(<<"/">>, c0) THEN Take(c0, Find(c0, <<"/">>)) ELSE c0
    IN  IF In(<<"-">>, c1) THEN Take(c1, Find(c1, <<"-">>)) ELSE c1

City(row) ==
    LET c0 == Strip(row.city)
        c1 == IF In(<<" ", "/">>, c0) THEN Take(c0, Find(c0, <<" ", "/">>)) ELSE c0
    IN  Replace(c1, T_Upplands, T_U)

Band(row) == IF In(T_2, row.band) THEN T_2m ELSE T_70cm

\* the proposed channel name
ProposedName(row) ==
    Strip(Take(Callsign(row) \o <<" ">> \o City(row) \o <<" ">> \o Band(row), NameWidth))

\* the district numeral of the name is not a valid one: a warning is printed
DistrictWarning(nm) ==
    ~IsNumeric(<<nm[DN_OFF + 1]>>) \/ IntOf(<<nm[DN_OFF + 1]>>) \notin valid_districts

ChannelType(row) == IF In(T_DMR, row.mode) THEN "Digital" ELSE "Analogue"

\* the guard of the offset: tx_shift without "." and "-" is numeric
ShiftLooksNumeric(shift) ==
    IsNumeric(Replace(Replace(shift, <<".">>, <<>>), <<"-">>, <<>>))

TxFrequency(row) ==
    LET offset == IF ShiftLooksNumeric(row.tx_shift) THEN Decimal(row.tx_shift)
                  ELSE DecZero
    IN  DecStr(DecAdd(Decimal(row.output), offset))

\* the "All Skip" flag of a repeater of this district
AllSkipHomeTruthy(home, allskip, district) ==
    \/ home # <<>> /\ home[1] # 0 /\ district # home[1]
    \/ allskip # <<>> /\ \E i \in 1..Len(allskip) : allskip[i] = district

AllSkip(home, allskip, district) ==
    \/ home # <<>> /\ district # home[1]
    \/ allskip # <<>> /\ \E i \in 1..Len(allskip) : allskip[i] = district

\* whether the derivation of a row runs to the uniqueness loop: no
\* IndexError at name[DN_OFF], no ValueError at int(row['district']),
\* no InvalidOperation at either Decimal(...)
DeriveOk(row) ==
    /\ Len(ProposedName(row)) > DN_OFF
    /\ IntOk(row.district)
    /\ ShiftLooksNumeric(row.tx_shift) => DecimalOk(row.tx_shift)
    /\ DecimalOk(row.output)

Derive(row, a) ==
    [Type    |-> ChannelType(row),
     Rx      |-> row.output,
     Tx      |-> TxFrequency(row),
     AllSkip |-> IF AllSkip(a.home, a.allskip, IntOf(row.district))
                 THEN "Yes" ELSE "No"]

NameNeverTaken(nm, chans) == FALSE

\* name in channels
NameTaken(nm, chans) == \E i \in 1..Len(chans) : chans[i][1] = nm

ModeTag(ch) == IF ch.Type = "Digital" THEN T_DMR ELSE T_FM

\* the last branch of the loop: nothing left to substitute
MustShorten(nm) ==
    /\ ~(In(<<" ", "7">>, nm) \/ In(<<" ", "2">>, From(nm, BandFrom)))
    /\ Len(nm) >= NameWidth
    /\ ~In(<<" ">>, nm) /\ ~In(<<"_">>, nm) /\ ~In(<<".">>, nm) /\ ~In(<<"-">>, nm)

\* one pass through the body of the loop
Cascade(nm, mode) ==
    IF In(<<" ", "7">>, nm) \/ In(<<" ", "2">>, From(nm, BandFrom))
        THEN Take(nm, RFind(nm, <<" ">>))
    ELSE IF Len(nm) < RoomForTag THEN Take(nm \o <<" ">> \o mode, NameWidth)
    ELSE IF Len(nm) < NameWidth
        THEN IF mode = T_FM THEN nm \o <<"A">> ELSE nm \o <<"D">>
    ELSE IF In(<<" ">>, nm) THEN ReplaceFirst(nm, <<" ">>, <<"_">>)
    ELSE IF In(<<"_">>, nm) THEN ReplaceFirst(nm, <<"_">>, <<".">>)
    ELSE IF In(<<".">>, nm) THEN ReplaceFirst(nm, <<".">>, <<"-">>)
    ELSE IF In(<<"-">>, nm) THEN ReplaceFirst(nm, <<"-">>, <<"/">>)
    ELSE Strip(DropLast(nm, 2))

---------------------------------------------------------------------------
(* The channel pass: custom rows and numbering *)

\* a row of the custom file as it is written to Channels.csv
CustomRow(row) == [row EXCEPT !.Name = Strip(Take(row.Name, NameWidth))]

TypeRank(t) == IF t = "Analogue" THEN 0 ELSE 1

\* the sort key of item a is less than that of item b:
\* (Channel Type, name[DN_OFF], Decimal(Rx Frequency))
KeyLess(a, b) ==
    LET ta == TypeRank(a[2].Type)
        tb == TypeRank(b[2].Type)
        da == Ord(a[1][DN_OFF + 1])
        db == Ord(b[1][DN_OFF + 1])
    IN  \/ ta < tb
        \/ ta = tb /\ da < db
        \/ ta = tb /\ da = db /\ DecLess(Decimal(a[2].Rx), Decimal(b[2].Rx))

\* x put into a sorted list after every item that is not greater (stable)
SortInsert(sorted, x) ==
    LET later == {i \in 1..Len(sorted) : KeyLess(x, sorted[i])}
        at    == IF later = {} THEN Len(sorted) + 1
                 ELSE CHOOSE i \in later : \A j \in later : i <= j
    IN  SubSeq(sorted, 1, at - 1) \o <<x>> \o SubSeq(sorted, at, Len(sorted))

RECURSIVE Sorted(_)
Sorted(items) ==
    IF items = <<>> THEN <<>>
    ELSE SortInsert(Sorted(DropLast(items, 1)), items[Len(items)])

\* the key of every item can be computed: no IndexError at c[0][DN_OFF]
SortOk(items) == \A i \in 1..Len(items) : Len(items[i][1]) > DN_OFF

NextIdStuck(id) == id

\* id = id + 1
NextId(id) == id + 1

\* the rows written for the sorted items, numbered from the one after id
RECURSIVE Numbered(_, _)
Numbered(items, id) ==
    IF items = <<>> THEN <<>>
    ELSE LET this == NextId(id)
         IN  <<[Number  |-> this,
                Name    |-> items[1][1],
                Type    |-> items[1][2].Type,
                Rx      |-> items[1][2].Rx,
                Tx      |-> items[1][2].Tx,
                AllSkip |-> items[1][2].AllSkip]>>
             \o Numbered(Tail(items), this)

---------------------------------------------------------------------------
(* The zone pass and the zone writer *)

ZoneAll(d)      == T_SM \o <<d>> \o <<" ">> \o T_AllChannels
ZoneMode(d, m)  == T_SM \o <<d>> \o <<" ">> \o m

\* the keys of the dict zones, in the order they are created
ZoneCatalog ==
    LET per(i) == <<ZoneAll(DigitChar[i]), ZoneMode(DigitChar[i], T_Analogue),
                    ZoneMode(DigitChar[i], T_DMR)>>
    IN  <<T_All2mDMR, T_All70cmDMR>>
        \o per(0) \o per(1) \o per(2) \o per(3) \o per(4) \o per(5) \o per(6) \o per(7)

ZoneNames == {ZoneCatalog[i] : i \in 1..Len(ZoneCatalog)}

EmptyZones == [z \in ZoneNames |-> <<>>]

OverCapOff(n) == n > ZoneCap + 1

\* len(zones[...]) > 80
OverCap(n) == n > ZoneCap

ZoneWarning(z) == [kind |-> "zone", text |-> z]

ZoneLabel(row) == IF row.Type = "Digital" THEN T_DMR ELSE T_Analogue

\* row['Rx Frequency'][0], where there is one
RxFirst(row) == IF row.Rx = <<>> THEN "" ELSE row.Rx[1]

\* the row is read without an exception: no IndexError at name[DN_OFF], no
\* KeyError at zones['SM{} {}'], no IndexError at row['Rx Frequency'][0]
ZoneRowOk(row) ==
    LET nm == Strip(row.Name)
    IN  /\ Len(nm) > DN_OFF
        /\ IsNumeric(<<nm[DN_OFF + 1]>>) =>
              /\ ZoneMode(nm[DN_OFF + 1], ZoneLabel(row)) \in ZoneNames
              /\ ZoneLabel(row) = T_DMR => row.Rx # <<>>

\* the dict zones after the row (after its last append, if an exception follows)
ZoneAppend(zs, row) ==
    LET nm  == Strip(row.Name)
        d   == nm[DN_OFF + 1]
        z1  == [zs EXCEPT ![ZoneMode(d, ZoneLabel(row))] = Append(@, nm)]
        z2  == [z1 EXCEPT ![ZoneAll(d)] = Append(@, nm)]
        z3  == IF ZoneLabel(row) = T_DMR /\ RxFirst(row) = "1"
               THEN [z2 EXCEPT ![T_All2mDMR] = Append(@, nm)] ELSE z2
        z4  == IF ZoneLabel(row) = T_DMR /\ RxFirst(row) = "4"
               THEN [z3 EXCEPT ![T_All70cmDMR] = Append(@, nm)] ELSE z3
    IN  IF IsNumeric(<<d>>) THEN z4 ELSE zs

\* the warnings printed for the row, in order
ZoneWarnings(zs, row) ==
    LET nm  == Strip(row.Name)
        d   == nm[DN_OFF + 1]
        new == ZoneAppend(zs, row)
    IN  IF ~IsNumeric(<<d>>) THEN <<>>
        ELSE (IF OverCap(Len(new[ZoneAll(d)])) THEN <<ZoneWarning(ZoneAll(d))>> ELSE <<>>)
          \o (IF ZoneLabel(row) = T_DMR /\ RxFirst(row) = "1" /\ OverCap(Len(new[T_All2mDMR]))
              THEN <<ZoneWarning(T_All2mDMR)>> ELSE <<>>)
          \o (IF ZoneLabel(row) = T_DMR /\ RxFirst(row) = "4" /\ OverCap(Len(new[T_All70cmDMR]))
              THEN <<ZoneWarning(T_All70cmDMR)>> ELSE <<>>)

ZonePaddingShort(len) == Max(ZoneRowWidth - 1 - len, 0)

\* the number of ";" written after the joined row: ';' * (81 - len(data))
ZonePadding(len) == Max(ZoneRowWidth - len, 0)

\* the fields of the line written for a zone
ZoneLine(z, members) ==
    LET data == <<z>> \o members
    IN  data \o Repeat(<<>>, ZonePadding(Len(data)))

\* the lines written to Zones.csv, in the order of zones.keys()
RECURSIVE ZoneLines(_, _)
ZoneLines(keys, zs) ==
    IF keys = <<>> THEN <<>>
    ELSE (IF Len(zs[keys[1]]) > 0 THEN <<ZoneLine(keys[1], zs[keys[1]])>> ELSE <<>>)
         \o ZoneLines(Tail(keys), zs)

---------------------------------------------------------------------------
(* Inputs: command lines, custom files and database files *)

MaxCustom == 1
MaxRecords == 2
MaxRepeat == 23
MaxZoneRows == 82
MaxZoneTail == 1
MaxLines == 8

Rec(district, status, mode, band, call, city, output, shift) ==
    [district |-> district, type |-> T_Repeater, status |-> status, mode |-> mode,
     band |-> band, call |-> call, city |-> city, output |-> output,
     tx_shift |-> shift]

C_SK7AB == <<"S", "K", "7", "A", "B">>
C_Lund  == <<"L", "u", "n", "d">>
F_434   == <<"4", "3", "4", ".", "6">>
F_145   == <<"1", "4", "5", ".", "6", "0", "0">>

\* SK7AB Lund 70cm, FM
R_Lund == Rec(<<"7">>, T_QRV, T_FM, T_70, C_SK7AB, C_Lund, F_434, <<"-", "2">>)

\* the same station in DMR
R_LundDMR == [R_Lund EXCEPT !.mode = <<"F", "M", "/", "D", "M", "R">>]

\* SK0MQ U.Vasby 2m, DMR on 2m, district 0
R_Vasby == Rec(<<"0">>, T_QRV, T_DMR, T_2,
               <<"S", "K", "0/", "M", "Q", "/", "R">>,
               <<"U", "p", "p", "l", "a", "n", "d", "s", " ", "V", "a", "s", "b",
                 "y", " ", "/", "N">>,
               F_145, <<"-", "0", ".", "6", "0", "0">>)

\* a repeater that is not on the air
R_Off == [R_Lund EXCEPT !.status = <<"Q", "R", "T">>]

\* a callsign with a district numeral outside 0..7
R_SK9 == [R_Lund EXCEPT !.call = <<"S", "K", "9", "A", "B">>, !.district = <<"5">>]

\* a callsign too short to hold a district numeral
R_Short == [R_Lund EXCEPT !.call = <<>>, !.city = <<>>, !.band = T_2]

\* a one-letter callsign without a city: "A  70cm"
R_Bare == [R_Lund EXCEPT !.call = <<"A">>, !.city = <<>>]

\* a district field that is no numeral
R_DistrictX == [R_Lund EXCEPT !.district = <<"X">>]

Shifts == {<<>>, <<"+", "2">>, <<"1", "-", "2">>, <<"2", ".">>, <<"-">>, <<"x">>,
           <<"0", ".", "6", ".", "0">>}

ShiftRecords == {[R_Lund EXCEPT !.tx_shift = s] : s \in Shifts}

RecordSet == {R_Lund, R_LundDMR, R_Vasby, R_Off, R_SK9, R_Short, R_Bare}

Row(number, nm, type, rx) ==
    [Number |-> number, Name |-> nm, Type |-> type, Rx |-> rx, Tx |-> rx,
     AllSkip |-> "No"]

\* a custom channel with the name a database row will get
X_Lund == Row(1, C_SK7AB \o <<" ">> \o C_Lund \o <<" ">> \o T_70cm, "Analogue", F_434)

\* a custom channel numbered in the range of the generated ones
X_Call == Row(501, <<"C", "a", "l", "l", " ", "c", "h">>, "Digital", F_145)

\* a custom channel with a name of more than 16 characters
X_Long == Row(7, <<"P", "M", "R", "4", "4", "6", " ", "c", "h", "a", "n", "n", "e",
                   "l", " ", "n", "o", " ", "1">>, "Analogue", F_434)

\* a custom channel with a two-character name
X_Short == Row(2, <<"C", "1">>, "Analogue", F_434)

CustomRows == {X_Lund, X_Call, X_Long, X_Short}

SeqsUpTo(S, n) == UNION {[1..k -> S] : k \in 0..n}

Homes == {<<>>, <<0>>, <<7>>, <<8>>}
Skips == {<<>>, <<7>>, <<0, 2>>, <<9>>}

NoArgs == [home |-> <<>>, allskip |-> <<>>]

\* the runs of the model: every command line with one database row; custom
\* files with database files; a database file repeating one row
Inputs ==
    {[args |-> [home |-> h, allskip |-> k], custom |-> <<>>, records |-> <<r>>] :
        h \in Homes, k \in Skips, r \in {R_Lund, R_Vasby}}
    \cup {[args |-> NoArgs, custom |-> c, records |-> f] :
        c \in SeqsUpTo(CustomRows, MaxCustom), f \in SeqsUpTo(RecordSet, MaxRecords)}
    \cup {[args |-> NoArgs, custom |-> <<>>, records |-> <<r>>] :
        r \in ShiftRecords \cup {R_DistrictX}}
    \cup {[args |-> NoArgs, custom |-> <<>>, records |-> Repeat(r, n)] :
        r \in {R_Lund, R_LundDMR}, n \in 3..MaxRepeat}

NoChannel == [Type |-> "", Rx |-> <<>>, Tx |-> <<>>, AllSkip |-> ""]

Init ==
    \E i \in Inputs :
        /\ args = i.args
        /\ custom = i.custom
        /\ records = i.records
        /\ pc = "args"
        /\ cidx = 0
        /\ ridx = 0
        /\ name = <<>>
        /\ channel = NoChannel
        /\ channels = <<>>
        /\ emitted = <<>>
        /\ opened = FALSE
        /\ out = <<>>
        /\ zidx = 0
        /\ zones = EmptyZones
        /\ zonefile = <<>>

---------------------------------------------------------------------------
(* The script, step by step *)

Say(kind, text) == [kind |-> kind, text |-> text]

\* bool(args.home): None and 0 are both false
HomeGiven(home) == home # <<>> /\ home[1] # 0

\* the validation of the arguments calls sys.exit()
ArgsRejected(a) ==
    \/ /\ a.allskip # <<>>
       /\ \/ \E i \in 1..Len(a.allskip) : a.allskip[i] \notin valid_districts
          \/ HomeGiven(a.home)
    \/ HomeGiven(a.home) /\ a.home[1] \notin valid_districts

ArgsMessage(a) ==
    IF a.allskip # <<>> /\ \E i \in 1..Len(a.allskip) : a.allskip[i] \notin valid_districts
        THEN Say("error", <<"invalid --allskip">>)
    ELSE IF a.allskip # <<>> /\ HomeGiven(a.home)
        THEN Say("error", <<"mutually exclusive">>)
    ELSE Say("error", <<"invalid --home">>)

\* parse and validate arguments: an error is printed and the script exits
RejectArgs ==
    /\ pc = "args"
    /\ ArgsRejected(args)
    /\ out' = Append(out, ArgsMessage(args))
    /\ pc' = "exit"
    /\ UNCHANGED <<args, custom, records, cidx, ridx, name, channel, channels,
                   emitted, opened, zidx, zones, zonefile>>

\* parse and validate arguments: no error
AcceptArgs ==
    /\ pc = "args"
    /\ ~ArgsRejected(args)
    /\ pc' = "open"
    /\ UNCHANGED <<args, custom, records, cidx, ridx, name, channel, channels,
                   emitted, opened, out, zidx, zones, zonefile>>

\* Channels.csv is opened for writing and gets its header
OpenChannels ==
    /\ pc = "open"
    /\ opened' = TRUE
    /\ pc' = "custom"
    /\ UNCHANGED <<args, custom, records, cidx, ridx, name, channel, channels,
                   emitted, out, zidx, zones, zonefile>>

\* one row of the custom file is written to Channels.csv
CopyCustomRow ==
    /\ pc = "custom"
    /\ cidx < Len(custom)
    /\ LET row == custom[cidx + 1]
       IN  /\ out' = IF row.Number > CustomLimit
                     THEN Append(out, Say("custom", row.Name)) ELSE out
           /\ emitted' = Append(emitted, CustomRow(row))
    /\ cidx' = cidx + 1
    /\ UNCHANGED <<pc, args, custom, records, ridx, name, channel, channels,
                   opened, zidx, zones, zonefile>>

\* the custom file is exhausted (or there is none)
CustomDone ==
    /\ pc = "custom"
    /\ cidx = Len(custom)
    /\ pc' = "records"
    /\ UNCHANGED <<args, custom, records, cidx, ridx, name, channel, channels,
                   emitted, opened, out, zidx, zones, zonefile>>

\* a database row that is not a QRV FM/DMR repeater on 2m/70cm is passed over
SkipRecord ==
    /\ pc = "records"
    /\ ridx < Len(records)
    /\ ~Filter(records[ridx + 1])
    /\ ridx' = ridx + 1
    /\ UNCHANGED <<pc, args, custom, records, cidx, name, channel, channels,
                   emitted, opened, out, zidx, zones, zonefile>>

\* a channel is derived from a database row, up to the uniqueness loop
DeriveChannel ==
    /\ pc = "records"
    /\ ridx < Len(records)
    /\ LET row == records[ridx + 1]
       IN  /\ Filter(row)
           /\ DeriveOk(row)
           /\ name' = ProposedName(row)
           /\ channel' = Derive(row, args)
           /\ out' = IF DistrictWarning(ProposedName(row))
                     THEN Append(out, Say("district", ProposedName(row))) ELSE out
    /\ pc' = "unique"
    /\ UNCHANGED <<args, custom, records, cidx, ridx, channels, emitted, opened,
                   zidx, zones, zonefile>>

\* the derivation raises: the script ends with a traceback
DeriveFails ==
    /\ pc = "records"
    /\ ridx < Len(records)
    /\ LET row == records[ridx + 1]
       IN  /\ Filter(row)
           /\ ~DeriveOk(row)
           /\ out' = IF Len(ProposedName(row)) > DN_OFF
                        /\ DistrictWarning(ProposedName(row))
                     THEN Append(out, Say("district", ProposedName(row))) ELSE out
    /\ pc' = "crash"
    /\ UNCHANGED <<args, custom, records, cidx, ridx, name, channel, channels,
                   emitted, opened, zidx, zones, zonefile>>

\* one pass through the body of "while name in channels" (of the lines the
\* loop prints, the model keeps those that fit in MaxLines)
Rename ==
    /\ pc = "unique"
    /\ NameTaken(name, channels)
    /\ name' = Cascade(name, ModeTag(channel))
    /\ out' = IF MustShorten(name) /\ Len(out) < MaxLines
              THEN Append(out, Say("shorten", name)) ELSE out
    /\ UNCHANGED <<pc, args, custom, records, cidx, ridx, channel, channels,
                   emitted, opened, zidx, zones, zonefile>>

\* channels[nm] = ch
DictSet(chans, nm, ch) ==
    IF \E i \in 1..Len(chans) : chans[i][1] = nm
    THEN [i \in 1..Len(chans) |-> IF chans[i][1] = nm THEN <<nm, ch>> ELSE chans[i]]
    ELSE Append(chans, <<nm, ch>>)

\* the loop is left and the channel is saved in the dict
Register ==
    /\ pc = "unique"
    /\ ~NameTaken(name, channels)
    /\ channels' = DictSet(channels, name, channel)
    /\ ridx' = ridx + 1
    /\ pc' = "records"
    /\ UNCHANGED <<args, custom, records, cidx, name, channel, emitted, opened,
                   out, zidx, zones, zonefile>>

\* the database is exhausted: the channels are sorted, numbered and written,
\* and Channels.csv is closed
NumberChannels ==
    /\ pc = "records"
    /\ ridx = Len(records)
    /\ SortOk(channels)
    /\ emitted' = emitted \o Numbered(Sorted(channels), IdBase)
    /\ pc' = "zones"
    /\ UNCHANGED <<args, custom, records, cidx, ridx, name, channel, channels,
                   opened, out, zidx, zones, zonefile>>

\* the sort key of a channel raises
NumberFails ==
    /\ pc = "records"
    /\ ridx = Len(records)
    /\ ~SortOk(channels)
    /\ pc' = "crash"
    /\ UNCHANGED <<args, custom, records, cidx, ridx, name, channel, channels,
                   emitted, opened, out, zidx, zones, zonefile>>

\* one row of Channels.csv is read back and put into its zones
ZoneRow ==
    /\ pc = "zones"
    /\ zidx < Len(emitted)
    /\ ZoneRowOk(emitted[zidx + 1])
    /\ zones' = ZoneAppend(zones, emitted[zidx + 1])
    /\ out' = out \o ZoneWarnings(zones, emitted[zidx + 1])
    /\ zidx' = zidx + 1
    /\ UNCHANGED <<pc, args, custom, records, cidx, ridx, name, channel, channels,
                   emitted, opened, zonefile>>

\* reading a row raises (IndexError or KeyError)
ZoneRowFails ==
    /\ pc = "zones"
    /\ zidx < Len(emitted)
    /\ ~ZoneRowOk(emitted[zidx + 1])
    /\ LET row == emitted[zidx + 1]
           nm  == Strip(row.Name)
           appended == /\ Len(nm) > DN_OFF
                       /\ IsNumeric(<<nm[DN_OFF + 1]>>)
                       /\ ZoneMode(nm[DN_OFF + 1], ZoneLabel(row)) \in ZoneNames
       IN  /\ zones' = IF appended THEN ZoneAppend(zones, row) ELSE zones
           /\ out' = IF appended THEN out \o ZoneWarnings(zones, row) ELSE out
    /\ pc' = "crash"
    /\ UNCHANGED <<args, custom, records, cidx, ridx, name, channel, channels,
                   emitted, opened, zidx, zonefile>>

\* Zones.csv is written; data.insert(0, name) puts its name into each list
\* that is written
WriteZones ==
    /\ pc = "zones"
    /\ zidx = Len(emitted)
    /\ zonefile' = ZoneLines(ZoneCatalog, zones)
    /\ zones' = [z \in ZoneNames |->
                    IF Len(zones[z]) > 0 THEN <<z>> \o zones[z] ELSE zones[z]]
    /\ pc' = "done"
    /\ UNCHANGED <<args, custom, records, cidx, ridx, name, channel, channels,
                   emitted, opened, out, zidx>>

Next ==
    \/ RejectArgs
    \/ AcceptArgs
    \/ OpenChannels
    \/ CopyCustomRow
    \/ CustomDone
    \/ SkipRecord
    \/ DeriveChannel
    \/ DeriveFails
    \/ Rename
    \/ Register
    \/ NumberChannels
    \/ NumberFails
    \/ ZoneRow
    \/ ZoneRowFails
    \/ WriteZones

Spec == Init /\ [][Next]_vars

\* the script is sequential: in the uniqueness loop its next step, another
\* pass or the saving of the channel, is taken
FairSpec == Spec /\ WF_vars(Rename) /\ WF_vars(Register)

---------------------------------------------------------------------------
(* The zone pass on long channel files: the state in which Channels.csv    *)
(* has been written from a custom file alone                               *)

Z_FM5   == Row(1, <<"S", "M", "5", " ", "F", "M">>, "Analogue", F_434)
Z_DMR5  == Row(2, <<"S", "M", "5", " ", "D", "V">>, "Digital", F_145)
Z_DMR3  == Row(3, <<"S", "M", "3", " ", "D", "V">>, "Digital", F_434)
Z_NoRx  == Row(4, <<"S", "M", "3", " ", "D", "V">>, "Digital", <<>>)

ZoneFileRows == {Z_FM5, Z_DMR5, Z_DMR3, X_Long}

ZoneFiles ==
    {Repeat(r1, n) \o Repeat(r2, m) :
        r1 \in ZoneFileRows, r2 \in ZoneFileRows \cup {X_Short, Z_NoRx},
        n \in (ZoneCap - 1)..MaxZoneRows, m \in 0..MaxZoneTail}

ZoneInit ==
    \E f \in ZoneFiles :
        /\ args = NoArgs
        /\ custom = f
        /\ records = <<>>
        /\ pc = "zones"
        /\ cidx = Len(f)
        /\ ridx = 0
        /\ name = <<>>
        /\ channel = NoChannel
        /\ channels = <<>>
        /\ emitted = [i \in 1..Len(f) |-> CustomRow(f[i])]
        /\ opened = TRUE
        /\ out = <<>>
        /\ zidx = 0
        /\ zones = EmptyZones
        /\ zonefile = <<>>

ZoneNext == ZoneRow \/ ZoneRowFails \/ WriteZones

ZoneSpec == ZoneInit /\ [][ZoneNext]_vars

---------------------------------------------------------------------------
(* The claims *)

\* the rows of Channels.csv that come from the custom file, and the others
External == 1..cidx
Generated == (cidx + 1)..Len(emitted)
ChannelsWritten == pc \in {"zones", "done"}

\* C1: once the channel pass has written Channels.csv, every Channel Name in
\* it (custom rows and generated rows together) has at most 16 characters
\* and no two rows share a Channel Name.
C1_NamesShortAndUnique ==
    ChannelsWritten =>
        \A i, j \in 1..Len(emitted) :
            /\ Len(emitted[i].Name) <= 16
            /\ i # j => emitted[i].Name # emitted[j].Name

\* C2: the loop "while name in channels" terminates: whenever the script is
\* in the loop, it later leaves it.
C2_LoopTerminates == (pc = "unique") ~> (pc # "unique")

\* C3 as stated: the generated Channel Numbers increase strictly in the order
\* of the file, the first is 501, and none equals the Channel Number of any
\* custom row, also of those the script only warns about.
C3_NumbersNeverCollide ==
    ChannelsWritten =>
        /\ \A i \in Generated : i = cidx + 1 => emitted[i].Number = 501
        /\ \A i, j \in Generated : i < j => emitted[i].Number < emitted[j].Number
        /\ \A i \in Generated : \A e \in External :
              emitted[i].Number # emitted[e].Number

\* C3 amended: the generated Channel Numbers increase strictly in the order
\* of the file, the first is 501, and none equals the Channel Number of a
\* custom row numbered 500 or less; a custom row numbered above 500 is
\* copied with a warning and can carry the number of a generated row.
C3_NumbersAboveCustomRange ==
    ChannelsWritten =>
        /\ \A i \in Generated : i = cidx + 1 => emitted[i].Number = 501
        /\ \A i, j \in Generated : i < j => emitted[i].Number < emitted[j].Number
        /\ \A i \in Generated : \A e \in External :
              emitted[e].Number <= 500 => emitted[i].Number # emitted[e].Number
        /\ \A e \in External :
              emitted[e].Number > 500 =>
                 \E k \in 1..Len(out) : out[k] = Say("custom", custom[e].Name)

C3_Witness ==
    /\ ChannelsWritten
    /\ \E e \in External : emitted[e].Number <= 500
    /\ Cardinality(Generated) >= 2

\* a command line that the claim C4 says is refused
BadArgs(a) ==
    \/ a.home # <<>> /\ a.allskip # <<>>
    \/ a.home # <<>> /\ a.home[1] \notin 0..7
    \/ \E i \in 1..Len(a.allskip) : a.allskip[i] \notin 0..7

\* C4: with both a home district and a skip list, or with a home or skip
\* district outside 0..7, the script stops with an error before Channels.csv
\* is opened: it never gets past the validation.
C4_BadArgsHalt ==
    BadArgs(args) => ~opened /\ pc \in {"args", "exit"}

\* the line of Zones.csv for zone z, if there is one
LinesOf(file, z) == {i \in 1..Len(file) : file[i][1] = z}

\* C5 as stated: a zone of the catalog gets a line iff it has a member, and
\* every line is the zone name followed by exactly 80 channel fields, its
\* members in insertion order and then empty fields, whatever the number of
\* members.
C5_EightyFields ==
    [][pc = "zones" /\ pc' = "done" =>
         \A z \in ZoneNames :
            /\ LinesOf(zonefile', z) # {} <=> Len(zones[z]) > 0
            /\ \A i \in LinesOf(zonefile', z) :
                  /\ Len(zonefile'[i]) = 1 + 80
                  /\ \A k \in 1..80 :
                        zonefile'[i][1 + k] =
                           IF k <= Len(zones[z]) THEN zones[z][k] ELSE <<>>]_vars

\* C5 amended: a zone of the catalog gets a line iff it has a member, and
\* every line is the zone name followed by the members in insertion order
\* and then 80 - n empty fields for n <= 80 members (80 channel fields), and
\* by nothing more for n > 80 members (n channel fields).
C5_FieldsPaddedToEighty ==
    [][pc = "zones" /\ pc' = "done" =>
         \A z \in ZoneNames :
            /\ LinesOf(zonefile', z) # {} <=> Len(zones[z]) > 0
            /\ Cardinality(LinesOf(zonefile', z)) <= 1
            /\ \A i \in LinesOf(zonefile', z) :
                  /\ Len(zonefile'[i]) = 1 + Max(80, Len(zones[z]))
                  /\ \A k \in 1..(Len(zonefile'[i]) - 1) :
                        zonefile'[i][1 + k] =
                           IF k <= Len(zones[z]) THEN zones[z][k] ELSE <<>>]_vars

C5_Witness ==
    /\ pc = "done"
    /\ \E i \in 1..Len(zonefile) : Len(zonefile[i]) > 1 + 80
    /\ \E i \in 1..Len(zonefile) :
          Len(zonefile[i]) = 1 + 80 /\ zonefile[i][1 + 80] = <<>>
    /\ \E z \in ZoneNames : zones[z] = <<>>

\* C6: the zone pass reads every row of Channels.csv without failing; a name
\* whose character at index 2 is a numeral d is appended to the zones
\* "SM{d} {mode}" and "SM{d} All Channels", and a name whose character there
\* is no numeral is appended to no zone.
C6_ZoneRowNeverFails ==
    [][pc = "zones" /\ zidx < Len(emitted) =>
         /\ pc' # "crash"
         /\ LET row == emitted[zidx + 1]
                nm  == Strip(row.Name)
                d   == nm[3]
                label == IF row.Type = "Digital" THEN T_DMR ELSE T_Analogue
            IN  IF d \in Digits
                THEN /\ zones'[T_SM \o <<d, " ">> \o label]
                          = Append(zones[T_SM \o <<d, " ">> \o label], nm)
                     /\ zones'[T_SM \o <<d, " ">> \o T_AllChannels]
                          = Append(zones[T_SM \o <<d, " ">> \o T_AllChannels], nm)
                ELSE zones' = zones]_vars

\* a well-formed signed or unsigned decimal text: an optional sign, digits
\* with at most one point, at least one digit
WellFormedDecimal(s) ==
    LET u == IF s # <<>> /\ s[1] \in {"+", "-"} THEN Tail(s) ELSE s
    IN  /\ \E i \in 1..Len(u) : u[i] \in Digits
        /\ \A i \in 1..Len(u) : u[i] \in Digits \cup {"."}
        /\ \A i, j \in 1..Len(u) : u[i] = "." /\ u[j] = "." => i = j

DecEqual(a, b) == ~DecLess(a, b) /\ ~DecLess(b, a)

\* the fields of the row other than tx_shift raise nothing
OtherFieldsOk(row) == DeriveOk([row EXCEPT !.tx_shift = <<>>])

\* C7: for an accepted row and any tx_shift, the derivation does not fail,
\* Rx Frequency is the output field, and Tx Frequency is output + tx_shift
\* for a well-formed decimal tx_shift and output for any other (stated for
\* the rows whose other fields raise nothing).
C7_ShiftNeverFails ==
    [][pc = "records" /\ ridx < Len(records) /\ Filter(records[ridx + 1])
         /\ OtherFieldsOk(records[ridx + 1]) =>
         LET row == records[ridx + 1]
         IN  /\ pc' = "unique"
             /\ channel'.Rx = row.output
             /\ DecEqual(Decimal(channel'.Tx),
                         IF WellFormedDecimal(row.tx_shift)
                         THEN DecAdd(Decimal(row.output), Decimal(row.tx_shift))
                         ELSE Decimal(row.output))]_vars

\* a command line the claims call valid
ValidArgs(a) ==
    /\ a.home # <<>> => a.home[1] \in 0..7
    /\ \A i \in 1..Len(a.allskip) : a.allskip[i] \in 0..7
    /\ ~(a.home # <<>> /\ a.allskip # <<>>)

\* C8: under a valid command line the All Skip flag of a derived channel is
\* Yes iff a home district is set (0 included) and the district field of the
\* row differs from it, or the district field is in the skip list.
C8_AllSkip ==
    pc = "unique" /\ ValidArgs(args) =>
        LET d == DigitVal[records[ridx + 1].district[1]]
        IN  channel.AllSkip = "Yes" <=>
               \/ args.home # <<>> /\ d # args.home[1]
               \/ \E i \in 1..Len(args.allskip) : args.allskip[i] = d

C8_Witness ==
    /\ pc = "unique"
    /\ args.home = <<0>>
    /\ args.allskip = <<>>
    /\ records[ridx + 1].district = <<"7">>
    /\ channel.AllSkip = "Yes"

\* the lines printed by the step
Printed == {out'[k] : k \in (Len(out) + 1)..Len(out')}

Grown(z) == Len(zones'[z]) > Len(zones[z]) /\ Len(zones'[z]) > 80

AllZones == {T_All2mDMR, T_All70cmDMR} \cup {ZoneAll(DigitChar[i]) : i \in 0..7}
ModeZones == {ZoneMode(DigitChar[i], m) : i \in 0..7, m \in {T_DMR, T_Analogue}}

\* C9 as stated: after every append to a zone in the zone pass, whichever
\* zone it is, a count above 80 makes the script print a warning that names
\* that zone.
C9_EveryZoneWarns ==
    [][pc = "zones" /\ pc' # "done" =>
         \A z \in ZoneNames :
            Grown(z) => [kind |-> "zone", text |-> z] \in Printed]_vars

\* C9 amended: after an append to "SM{d} All Channels", "All 2m DMR" or
\* "All 70cm DMR", a count above 80 makes the script print a warning that
\* names that zone; an append to "SM{d} DMR" or "SM{d} Analogue" prints no
\* warning that names it: when its count is above 80 the warning of
\* "SM{d} All Channels", printed for the same row, stands for it.
C9_AllZonesWarn ==
    [][pc = "zones" /\ pc' # "done" =>
         /\ \A z \in AllZones :
               Grown(z) => [kind |-> "zone", text |-> z] \in Printed
         /\ \A i \in 0..7 : \A m \in {T_DMR, T_Analogue} :
               Grown(ZoneMode(DigitChar[i], m)) =>
                  [kind |-> "zone", text |-> ZoneAll(DigitChar[i])] \in Printed
         /\ \A z \in ModeZones : [kind |-> "zone", text |-> z] \notin Printed]_vars

C9_Witness ==
    /\ pc = "zones"
    /\ Len(zones[ZoneMode("5", T_DMR)]) > 80
    /\ Len(zones[T_All2mDMR]) > 80
    /\ \E k \in 1..Len(out) : out[k] = [kind |-> "zone", text |-> T_All2mDMR]
    /\ \E k \in 1..Len(out) : out[k] = [kind |-> "zone", text |-> ZoneAll("5")]

RECURSIVE Accepted(_, _)
\* the number of rows among the first n of the file that pass the filter
Accepted(file, n) ==
    IF n = 0 THEN 0
    ELSE Accepted(file, n - 1) + (IF Filter(file[n]) THEN 1 ELSE 0)

\* C10: saving a channel changes no entry saved before, and the dict holds
\* one entry for each row read so far that passed the filter, so that the
\* file gets as many generated rows as rows passed the filter.
C10_RegistryKeepsEntries ==
    [][/\ \A i \in 1..Len(channels) :
             i <= Len(channels') /\ channels'[i] = channels[i]
       /\ Len(channels') = Accepted(records, ridx')
       /\ pc' \in {"zones", "done"} =>
             Cardinality((cidx' + 1)..Len(emitted')) = Accepted(records, Len(records))
      ]_vars

C10_Witness ==
    /\ pc = "done"
    /\ Len(channels) = 3
    /\ Len(records) = 3
    /\ channels[2][1] # ProposedName(records[2])
    /\ channels[3][1] # ProposedName(records[3])

====
